---- MODULE Spec2Model ----
(***************************************************************************)
(* A model of gotcl (src/gotcl.go): the value model (TclObj), the list     *)
(* grammar, the script grammar, the frame stack with variable links, the   *)
(* evaluator's status protocol and the procedure machinery.                *)
(*                                                                         *)
(* Text is a sequence of one-character strings; p.ch = -1 (end of input)   *)
(* is the token EOF.  A parser position is an index into the text: the     *)
(* parser's p.ch is chAt(txt, pos).  p.fail terminates the process         *)
(* (os.Exit), which the parsing operators report as ok = FALSE.            *)
(***************************************************************************)
EXTENDS Integers, Sequences, FiniteSets, TLC

VARIABLES pc, xs, rendered, parsed, interp, obs

vars == <<pc, xs, rendered, parsed, interp, obs>>

-----------------------------------------------------------------------------
(* Bounds *)

MaxStrLen == 2
MaxListLen == 2

-----------------------------------------------------------------------------
(* Characters *)

EOF == "EOF"
SP == " "
TAB == "\t"
NL == "\n"
CR == "\r"
FF == "\f"
VT == "<VT>"
BEL == "<BEL>"
LB == "{"
RB == "}"
LK == "["
RK == "]"
DQ == "\""
BS == "\\"
SEMI == ";"
DOLLAR == "$"
STAR == "*"
HASH == "#"
LP == "("
RP == ")"
COLON == ":"

chAt(txt, pos) == IF pos <= Len(txt) THEN txt[pos] ELSE EOF

\* unicode.IsSpace on the characters of the model's alphabet
IsSpace(c) == c \in {SP, TAB, NL, CR, FF, VT}

issepspace(c) == c = TAB \/ c = SP

notspace(c) == ~IsSpace(c)

escaped(r) ==
    CASE r = "n" -> NL
      [] r = "t" -> TAB
      [] r = "a" -> BEL
      [] r = "v" -> VT
      [] r = "r" -> CR
      [] OTHER -> r

RECURSIVE eatSpace(_, _)
eatSpace(txt, pos) ==
    IF chAt(txt, pos) # EOF /\ IsSpace(chAt(txt, pos))
    THEN eatSpace(txt, pos + 1)
    ELSE pos

RECURSIVE eatSepSpace(_, _)
eatSepSpace(txt, pos) ==
    IF chAt(txt, pos) # EOF /\ issepspace(chAt(txt, pos))
    THEN eatSepSpace(txt, pos + 1)
    ELSE pos

\* The definitions of the parser and the evaluator call one another through
\* Call, which applies the definition named to the arguments.
RECURSIVE Call(_, _)

-----------------------------------------------------------------------------
(* Values (TclObj).  value == nil is hasval = FALSE; listval == nil is     *)
(* haslist = FALSE.                                                        *)

\* a nil *TclObj
Nil == [nil |-> TRUE]

FromStr(s) ==
    [hasval |-> TRUE, value |-> s, has_intval |-> FALSE, intval |-> 0,
     haslist |-> FALSE, listval |-> <<>>]

FromInt(n) ==
    [hasval |-> FALSE, value |-> <<>>, has_intval |-> TRUE, intval |-> n,
     haslist |-> FALSE, listval |-> <<>>]

kNil == FromStr(<<>>)

Digit(d) ==
    CASE d = 0 -> "0" [] d = 1 -> "1" [] d = 2 -> "2" [] d = 3 -> "3" [] d = 4 -> "4"
      [] d = 5 -> "5" [] d = 6 -> "6" [] d = 7 -> "7" [] d = 8 -> "8" [] OTHER -> "9"

RECURSIVE natStr(_)
natStr(n) == IF n < 10 THEN <<Digit(n)>> ELSE Append(natStr(n \div 10), Digit(n % 10))

\* strconv.Itoa
Itoa(n) == IF n < 0 THEN <<"-">> \o natStr(0 - n) ELSE natStr(n)

\* Go's listval != nil test: a nil slice and an empty non-nil slice differ.
\* make([]*TclObj, 0) and args[ix:] of a non-nil slice are non-nil.
fromList(items) ==
    [hasval |-> FALSE, value |-> <<>>, has_intval |-> FALSE, intval |-> 0,
     haslist |-> TRUE, listval |-> items]

FromList(l) == fromList([k \in 1..Len(l) |-> FromStr(l[k])])

IndexAny(sv, chars) == \E k \in 1..Len(sv) : sv[k] \in chars

RECURSIVE renderList(_, _)
renderList(l, ind) ==
    IF ind > Len(l) THEN <<>>
    ELSE LET sv == Call("AsString", <<l[ind]>>)
             should_bracket == IndexAny(sv, {SP, TAB, NL, VT}) \/ Len(sv) = 0
         IN  (IF ind # 1 THEN <<SP>> ELSE <<>>)
             \o (IF should_bracket THEN <<LB>> ELSE <<>>)
             \o sv
             \o (IF should_bracket THEN <<RB>> ELSE <<>>)
             \o renderList(l, ind + 1)

AsString(t) ==
    IF t.hasval THEN t.value
    ELSE IF t.has_intval THEN Itoa(t.intval)
    ELSE IF t.haslist THEN renderList(t.listval, 1)
    ELSE <<>>

-----------------------------------------------------------------------------
(* List grammar *)

Failed(pos) == [ok |-> FALSE, val |-> <<>>, pos |-> pos]
Parsed(v, pos) == [ok |-> TRUE, val |-> v, pos |-> pos]

RECURSIVE blockLoop(_, _, _, _)
blockLoop(txt, pos, nest, buf) ==
    LET c == chAt(txt, pos) IN
    CASE c = EOF -> Failed(pos)
      [] c = BS ->
            IF chAt(txt, pos + 1) = EOF THEN Failed(pos + 1)
            ELSE blockLoop(txt, pos + 2, nest, buf \o <<c, txt[pos + 1]>>)
      [] c = LB -> blockLoop(txt, pos + 1, nest + 1, Append(buf, c))
      [] c = RB ->
            IF nest = 0 THEN Parsed(buf, pos + 1)
            ELSE blockLoop(txt, pos + 1, nest - 1, Append(buf, c))
      [] OTHER -> blockLoop(txt, pos + 1, nest, Append(buf, c))

parseBlockData(txt, pos) ==
    IF chAt(txt, pos) # LB THEN Failed(pos)
    ELSE blockLoop(txt, pos + 1, 0, <<>>)

RECURSIVE listStringLoop(_, _, _)
listStringLoop(txt, pos, buf) ==
    LET c == chAt(txt, pos) IN
    CASE c = DQ ->
            IF chAt(txt, pos + 1) # EOF /\ ~IsSpace(chAt(txt, pos + 1))
            THEN Failed(pos + 1)
            ELSE Parsed(buf, pos + 1)
      [] c = BS ->
            IF chAt(txt, pos + 1) = EOF THEN Failed(pos + 1)
            ELSE listStringLoop(txt, pos + 2, Append(buf, escaped(txt[pos + 1])))
      [] c = EOF -> Failed(pos)
      [] OTHER -> listStringLoop(txt, pos + 1, Append(buf, c))

parseListStringLit(txt, pos) ==
    IF chAt(txt, pos) # DQ THEN Failed(pos)
    ELSE listStringLoop(txt, pos + 1, <<>>)

RECURSIVE whileNotSpace(_, _, _)
whileNotSpace(txt, pos, buf) ==
    IF chAt(txt, pos) # EOF /\ notspace(chAt(txt, pos))
    THEN whileNotSpace(txt, pos + 1, Append(buf, txt[pos]))
    ELSE Parsed(buf, pos)

\* consumeWhile1(notspace, "word")
consumeWord(txt, pos) ==
    LET r == whileNotSpace(txt, pos, <<>>) IN
    IF r.val = <<>> THEN Failed(pos) ELSE r

RECURSIVE listLoop(_, _, _)
listLoop(txt, pos0, res) ==
    LET pos == eatSpace(txt, pos0)
        c == chAt(txt, pos)
        e == CASE c = LB -> Call("parseBlockData", <<txt, pos>>)
               [] c = DQ -> parseListStringLit(txt, pos)
               [] OTHER -> consumeWord(txt, pos)
    IN  IF c = EOF THEN Parsed(res, pos)
        ELSE IF ~e.ok THEN Failed(e.pos)
        ELSE listLoop(txt, e.pos, Append(res, e.val))

\* parser.parseList over the whole text: the list of element strings
parseListInner(txt) == listLoop(txt, 1, <<>>)

\* parseList: the elements as string values
parseList(txt) ==
    LET l == parseListInner(txt) IN
    [ok |-> l.ok, val |-> [k \in 1..Len(l.val) |-> FromStr(l.val[k])]]

\* TclObj.AsList
AsList(t) ==
    IF t.haslist THEN [ok |-> TRUE, val |-> t.listval]
    ELSE Call("parseList", <<Call("AsString", <<t>>)>>)

-----------------------------------------------------------------------------
(* Tokens (tclTok) and variable references                                 *)

Lit(s) == [kind |-> "lit", strval |-> s]
Block(s) == [kind |-> "block", strval |-> s]
Expand(t) == [kind |-> "expand", subject |-> t]
Sub(c) == [kind |-> "sub", cmd |-> c]
Str(toks) == [kind |-> "str", toks |-> toks]
VarRef(g, n, hasind, ind) ==
    [kind |-> "var", is_global |-> g, name |-> n, hasind |-> hasind, arrind |-> ind]

NoInd == Lit(<<>>)

\* varRef.String
vrString(vr) ==
    <<DOLLAR>> \o (IF vr.is_global THEN <<COLON, COLON>> ELSE <<>>) \o vr.name

RECURSIVE IndexRune(_, _, _)
IndexRune(s, c, k) ==
    IF k > Len(s) THEN 0 ELSE IF s[k] = c THEN k ELSE IndexRune(s, c, k + 1)

HasPrefix2(s) == Len(s) >= 2 /\ s[1] = COLON /\ s[2] = COLON

\* toVarRef; s[len(s)-1] of an empty string is an index out of range, which
\* the callers of the model never pass
toVarRef(s0) ==
    LET global == HasPrefix2(s0)
        s == IF global THEN SubSeq(s0, 3, Len(s0)) ELSE s0
        ri == IndexRune(s, LP, 1)
    IN  IF s[Len(s)] = RP /\ ri > 1
        THEN VarRef(global, SubSeq(s, 1, ri - 1), TRUE, Lit(SubSeq(s, ri + 1, Len(s) - 1)))
        ELSE VarRef(global, s, FALSE, NoInd)

-----------------------------------------------------------------------------
(* Statuses and errors *)

kTclOK == "OK"
kTclErr == "ERROR"
kTclReturn == "RETURN"
kTclBreak == "BREAK"
kTclContinue == "CONTINUE"
\* not a TclStatus: a Go run-time panic unwinding the evaluator
PANIC == "PANIC"
\* not a TclStatus: the process has ended (os.Exit in parser.fail, or the
\* goroutine stack exhausted)
EXIT == "EXIT"

Statuses == {kTclOK, kTclErr, kTclReturn, kTclBreak, kTclContinue}

Aborted(rc) == rc \in {PANIC, EXIT}

NoErr == [msg |-> "nil", detail |-> <<>>]
Err(msg, detail) == [msg |-> msg, detail |-> detail]

-----------------------------------------------------------------------------
(* Frames.  interp.frames[1] is the global frame and the last element is   *)
(* i.frame; a framelink's frame pointer is the index of the frame.  A      *)
(* frame's vars is a function whose domain is the set of names present.    *)

EmptyVars == [n \in {} |-> Nil]
EmptyArr == [k \in {} |-> Nil]

MapPut(m, k, v) == [x \in (DOMAIN m) \cup {k} |-> IF x = k THEN v ELSE m[x]]
MapDel(m, k) == [x \in (DOMAIN m) \ {k} |-> m[x]]

\* &varEntry{}
NewEntry ==
    [islink |-> FALSE, lframe |-> 0, lname |-> <<>>, hasobj |-> FALSE, obj |-> Nil,
     isarr |-> FALSE, arrdata |-> EmptyArr]

\* &varEntry{link: &framelink{theirf, theirs}}
LinkEntry(f, n) == [NewEntry EXCEPT !.islink = TRUE, !.lframe = f, !.lname = n]

\* newstackframe(i.frame)
PushFrameOf(i) == [i EXCEPT !.frames = Append(@, EmptyVars)]

\* i.frame = i.frame.next
PopFrameOf(i) == [i EXCEPT !.frames = SubSeq(@, 1, Len(@) - 1)]

Return(i, val) == [i |-> [i EXCEPT !.retval = val], rc |-> kTclOK]

Fail(i, err) == [i |-> [i EXCEPT !.err = err], rc |-> kTclErr]

FailStr(i, msg, detail) == Fail(i, Err(msg, detail))

\* the index of the frame whose map getVarMap returns
getVarMap(i, global) == IF global THEN 1 ELSE Len(i.frames)

LinkVar(i, level, theirs, mine) ==
    LET theirf == Len(i.frames) - level
        m == getVarMap(i, FALSE)
    IN  [i EXCEPT !.frames[m] = MapPut(@, mine, LinkEntry(theirf, theirs))]


\* the loop of setVar: the map and name the write lands on
RECURSIVE setTarget(_, _, _)
setTarget(frames, f, n) ==
    IF n \in DOMAIN frames[f] /\ frames[f][n].islink
    THEN setTarget(frames, frames[f][n].lframe, frames[f][n].lname)
    ELSE [f |-> f, n |-> n]

\* the loop of getVar and getArray: the entry the read lands on
RECURSIVE getTarget(_, _, _)
getTarget(frames, f, n) ==
    IF n \notin DOMAIN frames[f] THEN [found |-> FALSE, f |-> f, n |-> n]
    ELSE IF frames[f][n].islink
    THEN getTarget(frames, frames[f][n].lframe, frames[f][n].lname)
    ELSE [found |-> TRUE, f |-> f, n |-> n]

\* the tail of setVar, from "if vr.arrind != nil" on, for the entry at (f, n)
setVarStore(i, vr, val, f, n) ==
    IF vr.hasind
    THEN LET e == Call("tokEval", <<i, vr.arrind>>) IN
         IF e.rc # kTclOK THEN e
         ELSE LET sind == Call("AsString", <<e.i.retval>>)
                  j == [e.i EXCEPT !.frames[f][n].arrdata = MapPut(@, sind, val)]
              IN  Return(j, val)
    ELSE Return([i EXCEPT !.frames[f][n].hasobj = TRUE, !.frames[f][n].obj = val], val)

\* setVar without the test that an indexed write lands on an array
setVarNoArrayTest(i, vr, val) ==
    LET m == getVarMap(i, vr.is_global) IN
    IF val = Nil
    THEN [i |-> [i EXCEPT !.frames[m] = MapDel(@, vr.name)], rc |-> kTclOK]
    ELSE LET t == setTarget(i.frames, m, vr.name) IN
         IF t.n \notin DOMAIN i.frames[t.f]
         THEN LET old == [NewEntry EXCEPT !.isarr = vr.hasind]
                  j == [i EXCEPT !.frames[t.f] = MapPut(@, t.n, old)]
              IN  setVarStore(j, vr, val, t.f, t.n)
         ELSE setVarStore(i, vr, val, t.f, t.n)

setVar(i, vr, val) ==
    LET m == getVarMap(i, vr.is_global) IN
    IF val = Nil
    THEN [i |-> [i EXCEPT !.frames[m] = MapDel(@, vr.name)], rc |-> kTclOK]
    ELSE LET t == setTarget(i.frames, m, vr.name) IN
         IF t.n \notin DOMAIN i.frames[t.f]
         THEN LET old == [NewEntry EXCEPT !.isarr = vr.hasind]
                  j == [i EXCEPT !.frames[t.f] = MapPut(@, t.n, old)]
              IN  setVarStore(j, vr, val, t.f, t.n)
         ELSE IF vr.hasind /\ ~i.frames[t.f][t.n].isarr
         THEN FailStr(i, "can't set: variable is not an array", <<>>)
         ELSE setVarStore(i, vr, val, t.f, t.n)

\* SetVarRaw
SetVarRaw(i, name, val) == Call("setVar", <<i, toVarRef(name), val>>)

GetResult(i, obj, err, abort) == [i |-> i, obj |-> obj, err |-> err, abort |-> abort]

\* getVar; the entry v is the one found before the index is evaluated
getVar(i, vr) ==
    LET t == getTarget(i.frames, getVarMap(i, vr.is_global), vr.name)
        notfound == Err("variable not found: ", vrString(vr))
    IN  IF ~t.found THEN GetResult(i, Nil, notfound, "")
        ELSE LET v == i.frames[t.f][t.n] IN
             IF vr.hasind
             THEN IF ~v.isarr
                  THEN GetResult(i, Nil, Err("can't get: variable isn't array", <<>>), "")
                  ELSE LET e == Call("tokEval", <<i, vr.arrind>>)
                           sind == Call("AsString", <<e.i.retval>>)
                       IN  IF Aborted(e.rc) THEN GetResult(e.i, Nil, NoErr, e.rc)
                           ELSE IF e.rc # kTclOK THEN GetResult(e.i, Nil, e.i.err, "")
                           ELSE IF sind \notin DOMAIN v.arrdata
                           THEN GetResult(e.i, Nil,
                                          Err("can't read: no such element in array", sind), "")
                           ELSE GetResult(e.i, v.arrdata[sind], NoErr, "")
             ELSE IF v.isarr
             THEN GetResult(i, Nil, Err("can't get: variable is array", <<>>), "")
             ELSE GetResult(i, v.obj, NoErr, "")

\* GetVarRaw
GetVarRaw(i, name) == Call("getVar", <<i, toVarRef(name)>>)

\* varRef.Eval
varRefEval(i, v) ==
    LET g == Call("getVar", <<i, v>>) IN
    IF g.abort # "" THEN [i |-> g.i, rc |-> g.abort]
    ELSE IF g.err # NoErr THEN Fail(g.i, g.err)
    ELSE [i |-> [g.i EXCEPT !.retval = g.obj], rc |-> kTclOK]

-----------------------------------------------------------------------------
(* Script grammar *)

Letters ==
    {"a", "b", "c", "d", "e", "f", "g", "h", "i", "j", "k", "l", "m", "n", "o", "p",
     "q", "r", "s", "t", "u", "v", "w", "x", "y", "z", "A", "B", "C", "D", "E", "F",
     "G", "H", "I", "J", "K", "L", "M", "N", "O", "P", "Q", "R", "S", "T", "U", "V",
     "W", "X", "Y", "Z"}

Digits == {"0", "1", "2", "3", "4", "5", "6", "7", "8", "9"}

isvarword(c) == c \in Letters \cup Digits \cup {"_"}

isword(c) == c \notin {LK, RK, SEMI, DOLLAR, DQ} /\ ~IsSpace(c)

isEol(c) == c \in {EOF, SEMI, NL}

isExpand(t) == t.kind = "expand"

\* w.(simpleTok): the token types with an AsTclObj method
isSimpleTok(t) == t.kind \in {"lit", "block"}

\* tliteral.AsTclObj, block.AsTclObj
AsTclObj(t) == FromStr(t.strval)

NoSimple == [cmdname |-> <<>>, args |-> <<>>]

makeCommand(words) ==
    LET all_simpletok == \A k \in 1..Len(words) : isSimpleTok(words[k])
        has_expand == \E k \in 1..Len(words) : isExpand(words[k])
        args == [k \in 1..Len(words) |-> AsTclObj(words[k])]
    IN  IF all_simpletok /\ Len(words) > 0
        THEN [words |-> words, no_expand |-> ~has_expand, hassimple |-> TRUE,
              simple |-> [cmdname |-> Call("AsString", <<args[1]>>), args |-> Tail(args)]]
        ELSE [words |-> words, no_expand |-> ~has_expand, hassimple |-> FALSE,
              simple |-> NoSimple]

RECURSIVE wordLoop(_, _, _, _, _)
wordLoop(txt, pos, til, prev_esc, buf) ==
    LET c == chAt(txt, pos) IN
    IF c = EOF \/ c = til THEN Parsed(buf, pos)
    ELSE IF c = BS /\ ~prev_esc THEN wordLoop(txt, pos + 1, til, TRUE, buf)
    ELSE IF prev_esc THEN wordLoop(txt, pos + 1, til, FALSE, Append(buf, escaped(c)))
    ELSE IF isword(c) THEN wordLoop(txt, pos + 1, til, FALSE, Append(buf, c))
    ELSE Parsed(buf, pos)

parseSimpleWordTil(txt, pos, til) ==
    LET r == wordLoop(txt, pos, til, FALSE, <<>>) IN
    IF Len(r.val) = 0 THEN Failed(r.pos) ELSE Parsed(Lit(r.val), r.pos)

hasExtraChars(c) == c # EOF /\ ~IsSpace(c) /\ c # RB /\ c # RK /\ c # SEMI

RECURSIVE whileVarWord(_, _, _)
whileVarWord(txt, pos, buf) ==
    IF chAt(txt, pos) # EOF /\ isvarword(chAt(txt, pos))
    THEN whileVarWord(txt, pos + 1, Append(buf, txt[pos]))
    ELSE Parsed(buf, pos)


parseToken(txt, pos) == Call("parseTokenTil", <<txt, pos, EOF>>)

RECURSIVE subLoop(_, _, _)
subLoop(txt, pos0, res) ==
    LET pos == eatSepSpace(txt, pos0) IN
    IF chAt(txt, pos) = RK THEN Parsed(Sub(makeCommand(res)), pos + 1)
    ELSE LET t == Call("parseToken", <<txt, pos>>) IN
         IF ~t.ok THEN t ELSE subLoop(txt, t.pos, Append(res, t.val))

parseSubcommand(txt, pos) ==
    IF chAt(txt, pos) # LK THEN Failed(pos) ELSE subLoop(txt, pos + 1, <<>>)

parseBlockOrExpand(txt, pos) ==
    LET bd == Call("parseBlockData", <<txt, pos>>) IN
    IF ~bd.ok THEN bd
    ELSE IF bd.val = <<STAR>> /\ hasExtraChars(chAt(txt, bd.pos))
    THEN LET t == Call("parseToken", <<txt, bd.pos>>) IN
         IF ~t.ok THEN t ELSE Parsed(Expand(t.val), t.pos)
    ELSE IF hasExtraChars(chAt(txt, bd.pos)) THEN Failed(bd.pos)
    ELSE Parsed(Block(bd.val), bd.pos)

\* parseVarRef; ${} makes toVarRef index an empty string, a run-time panic
\* that setError turns into a parse error
parseVarRef(txt, pos0) ==
    IF chAt(txt, pos0) = LB
    THEN LET bd == Call("parseBlockData", <<txt, pos0>>) IN
         IF ~bd.ok \/ bd.val = <<>> \/ bd.val = <<COLON, COLON>> THEN Failed(bd.pos)
         ELSE Parsed(toVarRef(bd.val), bd.pos)
    ELSE LET global == chAt(txt, pos0) = COLON
             pos == IF global THEN pos0 + 2 ELSE pos0
             nm == whileVarWord(txt, pos, <<>>)
         IN  IF global /\ chAt(txt, pos0 + 1) # COLON THEN Failed(pos0 + 1)
             ELSE IF nm.val = <<>> THEN Failed(pos)
             ELSE IF chAt(txt, nm.pos) = LP
             THEN LET ind == Call("parseTokenTil", <<txt, nm.pos + 1, RP>>) IN
                  IF ~ind.ok THEN ind
                  ELSE IF chAt(txt, ind.pos) # RP THEN Failed(ind.pos)
                  ELSE Parsed(VarRef(global, nm.val, TRUE, ind.val), ind.pos + 1)
             ELSE Parsed(VarRef(global, nm.val, FALSE, NoInd), nm.pos)

parseVariable(txt, pos) ==
    IF chAt(txt, pos) # DOLLAR THEN Failed(pos) ELSE Call("parseVarRef", <<txt, pos + 1>>)

kRaw(value) == [kind |-> "raw", value |-> value]
kVar(varref) == [kind |-> "var", varref |-> varref]
kSubcmd(subcmd) == [kind |-> "subcmd", subcmd |-> subcmd]

record_accum(toks, accum) == IF Len(accum) # 0 THEN Append(toks, kRaw(accum)) ELSE toks

RECURSIVE stringLoop(_, _, _, _)
stringLoop(txt, pos, toks, accum) ==
    LET c == chAt(txt, pos) IN
    CASE c = DQ -> Parsed(Str(record_accum(toks, accum)), pos + 1)
      [] c = DOLLAR ->
            LET v == Call("parseVariable", <<txt, pos>>) IN
            IF ~v.ok THEN v
            ELSE stringLoop(txt, v.pos, Append(record_accum(toks, accum), kVar(v.val)), <<>>)
      [] c = LK ->
            LET s == Call("parseSubcommand", <<txt, pos>>) IN
            IF ~s.ok THEN s
            ELSE stringLoop(txt, s.pos, Append(record_accum(toks, accum), kSubcmd(s.val)), <<>>)
      [] c = BS ->
            IF chAt(txt, pos + 1) = EOF THEN Failed(pos + 1)
            ELSE stringLoop(txt, pos + 2, toks, Append(accum, escaped(txt[pos + 1])))
      [] c = EOF -> Failed(pos)
      [] OTHER -> stringLoop(txt, pos + 1, toks, Append(accum, c))

parseStringLit(txt, pos) ==
    IF chAt(txt, pos) # DQ THEN Failed(pos) ELSE stringLoop(txt, pos + 1, <<>>, <<>>)

parseTokenTil(txt, pos, til) ==
    LET c == chAt(txt, pos) IN
    CASE c = LK -> Call("parseSubcommand", <<txt, pos>>)
      [] c = LB -> Call("parseBlockOrExpand", <<txt, pos>>)
      [] c = DQ -> Call("parseStringLit", <<txt, pos>>)
      [] c = DOLLAR -> Call("parseVariable", <<txt, pos>>)
      [] OTHER -> Call("parseSimpleWordTil", <<txt, pos, til>>)

RECURSIVE commandLoop(_, _, _)
commandLoop(txt, pos0, res) ==
    LET pos == eatSepSpace(txt, pos0) IN
    IF isEol(chAt(txt, pos)) THEN Parsed(makeCommand(res), pos)
    ELSE LET t == Call("parseToken", <<txt, pos>>) IN
         IF ~t.ok THEN t ELSE commandLoop(txt, t.pos, Append(res, t.val))

parseCommand(txt, pos) ==
    LET t == Call("parseToken", <<txt, pos>>) IN
    IF ~t.ok THEN t ELSE commandLoop(txt, t.pos, <<t.val>>)

RECURSIVE eatComment(_, _)
eatComment(txt, pos) ==
    IF chAt(txt, pos) # EOF /\ chAt(txt, pos) # NL THEN eatComment(txt, pos + 1) ELSE pos

RECURSIVE eatExtra(_, _)
eatExtra(txt, pos0) ==
    LET pos == eatSpace(txt, pos0) IN
    IF chAt(txt, pos) = SEMI THEN eatExtra(txt, pos + 1) ELSE pos

RECURSIVE commandsLoop(_, _, _)
commandsLoop(txt, pos, res) ==
    IF chAt(txt, pos) = EOF THEN Parsed(res, pos)
    ELSE IF chAt(txt, pos) = HASH
    THEN commandsLoop(txt, eatExtra(txt, eatComment(txt, pos + 1)), res)
    ELSE LET c == Call("parseCommand", <<txt, pos>>) IN
         IF ~c.ok THEN c ELSE commandsLoop(txt, eatExtra(txt, c.pos), Append(res, c.val))

\* parseCommands over the whole text
parseCommands(txt) == commandsLoop(txt, eatSpace(txt, 1), <<>>)

\* TclObj.asCmds
asCmds(t) == Call("parseCommands", <<Call("AsString", <<t>>)>>)

-----------------------------------------------------------------------------
(* The interpreter.  An Interp is a record: cmds (the registry, a function *)
(* from names to commands), frames, retval, err; i.cmdcount, i.loc and     *)
(* i.chans are never read by the code modelled and are left out.  The      *)
(* field log is not program state: it records, for the run in progress,    *)
(* what the evaluator did (procedure calls, command sequences, dispatches) *)
(* so that properties can speak about it.                                  *)
(*                                                                         *)
(* A command (TclCmd) is a record: the closure makeProc builds carries     *)
(* its signature and parsed body; tclProc and the error command are the    *)
(* two commands NewInterp registers itself.                                *)

MaxCallDepth == 3

Log(i, e) == [i EXCEPT !.log = Append(@, e)]

ProcCmd(sigs, cmds) == [kind |-> "proc", sigs |-> sigs, cmds |-> cmds]
TclProcCmd == [kind |-> "tclProc"]
ErrorCmd == [kind |-> "error"]
\* a command of the host: returns the status rc; with setres it first stores
\* its first argument (or the empty value) as the result
HostCmd(rc, setres) == [kind |-> "host", rc |-> rc, setres |-> setres]

ArgSig(name, hasdef, def) == [name |-> name, hasdef |-> hasdef, def |-> def]

T_args == <<"a", "r", "g", "s">>
T_proc == <<"p", "r", "o", "c">>
T_error == <<"e", "r", "r", "o", "r">>
T_unknown == <<"u", "n", "k", "n", "o", "w", "n">>
T_break == <<"b", "r", "e", "a", "k">>
T_continue == <<"c", "o", "n", "t", "i", "n", "u", "e">>
T_return == <<"r", "e", "t", "u", "r", "n">>

\* the commands of tclBasicCmds the model uses
tclBasicCmds ==
    (T_break :> HostCmd(kTclBreak, FALSE))
    @@ (T_continue :> HostCmd(kTclContinue, FALSE))
    @@ (T_return :> HostCmd(kTclReturn, TRUE))

SetCmd(i, name, cmd) ==
    IF cmd = Nil THEN [i EXCEPT !.cmds = MapDel(@, name)]
    ELSE [i EXCEPT !.cmds = MapPut(@, name, cmd)]

\* creator is the interpreter the error command of the registry fails: the
\* closure NewInterp registers captures the interpreter NewInterp builds.
\* It is Nil when that interpreter is this one, else its frames, result and
\* held error.
NewInterp ==
    [cmds |-> (T_proc :> TclProcCmd) @@ (T_error :> ErrorCmd) @@ tclBasicCmds,
     frames |-> <<EmptyVars>>,
     retval |-> Nil,
     err |-> NoErr,
     log |-> <<>>,
     creator |-> Nil]

\* the frames, result and held error of an interpreter
Own(i) == [frames |-> i.frames, retval |-> i.retval, err |-> i.err]

\* NewInterpFrom: the registry of old, a frame stack of its own, no result
\* and no error
NewInterpFrom(old) ==
    [cmds |-> old.cmds,
     frames |-> <<EmptyVars>>,
     retval |-> Nil,
     err |-> NoErr,
     log |-> <<>>,
     creator |-> IF old.creator = Nil THEN Own(old) ELSE old.creator]

RECURSIVE sigLoop(_, _, _)
sigLoop(sig, k, sigs) ==
    IF k > Len(sig) THEN [ok |-> TRUE, val |-> sigs]
    ELSE LET sl == Call("AsList", <<sig[k]>>) IN
         IF ~sl.ok THEN [ok |-> FALSE, val |-> sigs]
         ELSE IF Len(sl.val) = 2
         THEN sigLoop(sig, k + 1, Append(sigs, ArgSig(Call("AsString", <<sl.val[1]>>), TRUE, sl.val[2])))
         ELSE sigLoop(sig, k + 1, Append(sigs, ArgSig(Call("AsString", <<sig[k]>>), FALSE, Nil)))

\* makeArgSigs; a parameter that does not parse as a list ends the process
\* inside parseList
makeArgSigs(sig) == sigLoop(sig, 1, <<>>)

BindResult(i, err, abort) == [i |-> i, err |-> err, abort |-> abort]

\* bindArgs, from parameter ix on (ix counts from 1; args[ix:] of the code
\* is the tail of args from position ix, and slicing past len(args) panics)
RECURSIVE bindLoop(_, _, _, _)
bindLoop(i, vnames, args, ix) ==
    IF ix > Len(vnames) THEN BindResult(i, NoErr, FALSE)
    ELSE LET vn == vnames[ix]
             vr == VarRef(FALSE, vn.name, FALSE, NoInd)
         IN  IF ix = Len(vnames) /\ vn.name = T_args
             THEN IF ix - 1 > Len(args) THEN BindResult(i, NoErr, TRUE)
                  ELSE BindResult(Call("setVar", <<i, vr, fromList(SubSeq(args, ix, Len(args)))>>).i,
                                  NoErr, FALSE)
             ELSE IF ix - 1 >= Len(args)
             THEN IF ~vn.hasdef THEN BindResult(i, Err("arg count mismatch", <<>>), FALSE)
                  ELSE bindLoop(Call("setVar", <<i, vr, vn.def>>).i, vnames, args, ix + 1)
             ELSE bindLoop(Call("setVar", <<i, vr, args[ix]>>).i, vnames, args, ix + 1)

bindArgs(i, vnames, args) == bindLoop(i, vnames, args, 1)


\* littok.evalStr and the loop of strlit.Eval; i.retval.AsString() on a nil
\* retval is a nil dereference
RECURSIVE strlitLoop(_, _, _, _)
strlitLoop(i, toks, k, res) ==
    IF k > Len(toks) THEN Return(i, FromStr(res))
    ELSE LET tok == toks[k] IN
         IF tok.kind = "raw" THEN strlitLoop(i, toks, k + 1, res \o tok.value)
         ELSE LET e == IF tok.kind = "var" THEN Call("tokEval", <<i, tok.varref>>)
                       ELSE Call("tokEval", <<i, tok.subcmd>>)
              IN  IF Aborted(e.rc) THEN e
                  ELSE IF e.i.retval = Nil THEN [i |-> e.i, rc |-> PANIC]
                  ELSE IF e.rc # kTclOK THEN e
                  ELSE strlitLoop(e.i, toks, k + 1, res \o Call("AsString", <<e.i.retval>>))

\* tclTok.Eval of each token type
tokEval(i, t) ==
    CASE t.kind = "lit" -> [i |-> [i EXCEPT !.retval = FromStr(t.strval)], rc |-> kTclOK]
      [] t.kind = "block" -> Return(i, FromStr(t.strval))
      [] t.kind = "expand" -> Call("tokEval", <<i, t.subject>>)
      [] t.kind = "sub" -> Call("commandEval", <<i, t.cmd>>)
      [] t.kind = "var" -> Call("varRefEval", <<i, t>>)
      [] t.kind = "str" -> strlitLoop(i, t.toks, 1, <<>>)

ArgsResult(i, rc, args) == [i |-> i, rc |-> rc, args |-> args]

\* evalArgs from token k on; AsList of a value that does not parse ends the
\* process inside parseList
RECURSIVE argsLoop(_, _, _, _, _)
argsLoop(i, toks, no_expand, k, res) ==
    IF k > Len(toks) THEN ArgsResult(i, kTclOK, res)
    ELSE LET e == Call("tokEval", <<i, toks[k]>>) IN
         IF e.rc # kTclOK THEN ArgsResult(e.i, e.rc, res)
         ELSE IF no_expand \/ ~isExpand(toks[k])
         THEN argsLoop(e.i, toks, no_expand, k + 1, Append(res, e.i.retval))
         ELSE IF e.i.retval = Nil THEN ArgsResult(e.i, PANIC, res)
         ELSE LET rlist == Call("AsList", <<e.i.retval>>) IN
              IF ~rlist.ok THEN ArgsResult(e.i, EXIT, res)
              ELSE argsLoop(e.i, toks, no_expand, k + 1, res \o rlist.val)

\* evalArgs with every word taken as one argument
evalArgsNoExpand(i, toks, no_expand) == argsLoop(i, toks, TRUE, 1, <<>>)

evalArgs(i, toks, no_expand) == argsLoop(i, toks, no_expand, 1, <<>>)

Dispatch(name, args) == [ev |-> "dispatch", name |-> name, args |-> args]

\* command.eval from the call of evalArgs on; args[0] of an empty argument
\* vector is an index out of range
evalWords(i, cmd) ==
    LET a == Call("evalArgs", <<i, cmd.words, cmd.no_expand>>) IN
    IF a.rc # kTclOK THEN [i |-> a.i, rc |-> a.rc]
    ELSE IF Len(a.args) = 0 THEN [i |-> a.i, rc |-> PANIC]
    ELSE LET fname == Call("AsString", <<a.args[1]>>) IN
         IF fname \in DOMAIN a.i.cmds
         THEN Call("callCmd", <<Log(a.i, Dispatch(fname, Tail(a.args))), a.i.cmds[fname], Tail(a.args)>>)
         ELSE IF T_unknown \in DOMAIN a.i.cmds
         THEN Call("callCmd", <<Log(a.i, Dispatch(T_unknown, a.args)), a.i.cmds[T_unknown], a.args>>)
         ELSE FailStr(a.i, "command not found: ", fname)

\* command.eval on the simple call, taken when the name is registered
evalSimple(i, cmd) ==
    Call("callCmd", <<Log(i, Dispatch(cmd.simple.cmdname, cmd.simple.args)),
            i.cmds[cmd.simple.cmdname], cmd.simple.args>>)

\* what a caller can observe of an evaluation; the result is read only under
\* the statuses OK and RETURN (Run, makeProc)
Observed(r) ==
    [rc |-> r.rc,
     retval |-> IF r.rc \in {kTclOK, kTclReturn} THEN r.i.retval ELSE Nil,
     err |-> r.i.err, frames |-> r.i.frames,
     cmds |-> r.i.cmds,
     dispatches |-> SelectSeq(r.i.log, LAMBDA e : e.ev = "dispatch")]

commandEval(i, cmd) ==
    IF Len(cmd.words) = 0 THEN Return(i, kNil)
    ELSE IF cmd.hassimple /\ cmd.simple.cmdname \in DOMAIN i.cmds
    THEN LET fast == Call("evalSimple", <<i, cmd>>)
             same == Observed(fast) = Observed(Call("evalWords", <<i, cmd>>))
         IN  [i |-> Log(fast.i, [ev |-> "simple", same |-> same]), rc |-> fast.rc]
    ELSE Call("evalWords", <<i, cmd>>)

\* Interp.evalCmds from command ind on; rcs collects the statuses of the
\* commands evaluated, for the log
RECURSIVE evalLoop(_, _, _, _, _)
evalLoop(i, cmds, ind, res, rcs) ==
    IF ind <= Len(cmds) /\ res = kTclOK
    THEN LET e == Call("commandEval", <<i, cmds[ind]>>) IN
         IF Aborted(e.rc) THEN e
         ELSE evalLoop(e.i, cmds, ind + 1, e.rc, Append(rcs, e.rc))
    ELSE [i |-> Log(i, [ev |-> "cmds", n |-> Len(cmds), rcs |-> rcs, res |-> res]),
          rc |-> res]

\* evalCmds without the test of res in the loop condition
RECURSIVE evalLoopAll(_, _, _, _, _)
evalLoopAll(i, cmds, ind, res, rcs) ==
    IF ind <= Len(cmds)
    THEN LET e == Call("commandEval", <<i, cmds[ind]>>) IN
         IF Aborted(e.rc) THEN e
         ELSE evalLoopAll(e.i, cmds, ind + 1, e.rc, Append(rcs, e.rc))
    ELSE [i |-> Log(i, [ev |-> "cmds", n |-> Len(cmds), rcs |-> rcs, res |-> res]),
          rc |-> res]

evalCmdsAll(i, cmds) == evalLoopAll(i, cmds, 1, kTclOK, <<>>)

evalCmds(i, cmds) == evalLoop(i, cmds, 1, kTclOK, <<>>)

ProcEvent(before, r) ==
    [ev |-> "proc", before |-> before, after |-> Len(r.i.frames), rc |-> r.rc]

\* the closure makeProc returns; a panic below it unwinds through it
procBody(i, f, args) ==
    LET b == Call("bindArgs", <<PushFrameOf(i), f.sigs, args>>) IN
    IF b.abort THEN [i |-> b.i, rc |-> PANIC]
    ELSE IF b.err # NoErr THEN Fail(PopFrameOf(b.i), b.err)
    ELSE LET e == Call("evalCmds", <<b.i, f.cmds>>) IN
         IF Aborted(e.rc) THEN e
         ELSE [i |-> PopFrameOf(e.i), rc |-> IF e.rc = kTclReturn THEN kTclOK ELSE e.rc]

procCall(i, f, args) ==
    IF Len(i.frames) >= MaxCallDepth THEN [i |-> i, rc |-> EXIT]
    ELSE LET r == Call("procBody", <<i, f, args>>) IN
         IF r.rc = EXIT THEN r
         ELSE [i |-> Log(r.i, ProcEvent(Len(i.frames), r)), rc |-> r.rc]

\* makeProc: the command, or the end of the process when the body or a
\* parameter does not parse
makeProc(sig, body) ==
    LET c == Call("asCmds", <<body>>)
        s == Call("makeArgSigs", <<sig>>)
    IN  IF ~c.ok \/ ~s.ok THEN [ok |-> FALSE, cmd |-> Nil]
        ELSE [ok |-> TRUE, cmd |-> ProcCmd(s.val, c.val)]

tclProc(i, args) ==
    IF Len(args) # 3 THEN FailStr(i, "wrong # args", <<>>)
    ELSE LET sig == Call("AsList", <<args[2]>>) IN
         IF ~sig.ok THEN [i |-> i, rc |-> EXIT]
         ELSE LET p == Call("makeProc", <<sig.val, args[3]>>) IN
              IF ~p.ok THEN [i |-> i, rc |-> EXIT]
              ELSE Return(SetCmd(i, Call("AsString", <<args[1]>>), p.cmd), kNil)

\* the error command of NewInterp; args[0] of no arguments is an index out
\* of range.  The closure fails the interpreter it captured, whichever
\* interpreter ni runs it.
errorCmd(i, args) ==
    IF Len(args) = 0 THEN [i |-> i, rc |-> PANIC]
    ELSE IF i.creator = Nil THEN FailStr(i, "", Call("AsString", <<args[1]>>))
    ELSE [i |-> [i EXCEPT !.creator.err = Err("", Call("AsString", <<args[1]>>))],
          rc |-> kTclErr]

hostCmd(i, f, args) ==
    IF f.rc = kTclErr THEN FailStr(i, "host", <<>>)
    ELSE IF f.setres
    THEN [i |-> [i EXCEPT !.retval = IF Len(args) > 0 THEN args[1] ELSE kNil], rc |-> f.rc]
    ELSE [i |-> i, rc |-> f.rc]

callCmd(i, f, args) ==
    CASE f.kind = "proc" -> Call("procCall", <<i, f, args>>)
      [] f.kind = "tclProc" -> Call("tclProc", <<i, args>>)
      [] f.kind = "error" -> errorCmd(i, args)
      [] f.kind = "host" -> hostCmd(i, f, args)


RunResult(i, val, err, r) == [i |-> i, val |-> val, err |-> err, r |-> r]

\* Interp.Run on the text of the reader (EvalString)
Run(i, txt) ==
    LET c == Call("parseCommands", <<txt>>) IN
    IF ~c.ok THEN RunResult(i, Nil, NoErr, EXIT)
    ELSE LET e == Call("evalCmds", <<i, c.val>>)
             r == e.rc
             estr == CASE r = kTclBreak -> "invoked \"break\" outside of a loop"
                       [] r = kTclContinue -> "invoked \"continue\" outside of a loop"
                       [] OTHER -> "uncaught error: "
         IN  IF Aborted(r) THEN RunResult(e.i, Nil, NoErr, r)
             ELSE IF r = kTclOK \/ r = kTclReturn
             THEN RunResult(e.i, IF e.i.retval = Nil THEN kNil ELSE e.i.retval, NoErr, r)
             ELSE IF e.i.err = NoErr
             THEN RunResult([e.i EXCEPT !.err = Err(estr, <<>>)], Nil, Err(estr, <<>>), r)
             ELSE RunResult(e.i, Nil, e.i.err, r)

Call(f, a) ==
    CASE f = "parseTokenTil" -> parseTokenTil(a[1], a[2], a[3])
      [] f = "parseToken" -> parseToken(a[1], a[2])
      [] f = "parseSimpleWordTil" -> parseSimpleWordTil(a[1], a[2], a[3])
      [] f = "parseBlockData" -> parseBlockData(a[1], a[2])
      [] f = "parseBlockOrExpand" -> parseBlockOrExpand(a[1], a[2])
      [] f = "parseVarRef" -> parseVarRef(a[1], a[2])
      [] f = "parseVariable" -> parseVariable(a[1], a[2])
      [] f = "parseSubcommand" -> parseSubcommand(a[1], a[2])
      [] f = "parseStringLit" -> parseStringLit(a[1], a[2])
      [] f = "parseCommand" -> parseCommand(a[1], a[2])
      [] f = "parseCommands" -> parseCommands(a[1])
      [] f = "asCmds" -> asCmds(a[1])
      [] f = "parseList" -> parseList(a[1])
      [] f = "AsList" -> AsList(a[1])
      [] f = "AsString" -> AsString(a[1])
      [] f = "tokEval" -> tokEval(a[1], a[2])
      [] f = "varRefEval" -> varRefEval(a[1], a[2])
      [] f = "setVar" -> setVar(a[1], a[2], a[3])
      [] f = "getVar" -> getVar(a[1], a[2])
      [] f = "commandEval" -> commandEval(a[1], a[2])
      [] f = "callCmd" -> callCmd(a[1], a[2], a[3])
      [] f = "evalArgs" -> evalArgs(a[1], a[2], a[3])
      [] f = "evalWords" -> evalWords(a[1], a[2])
      [] f = "evalSimple" -> evalSimple(a[1], a[2])
      [] f = "evalCmds" -> evalCmds(a[1], a[2])
      [] f = "bindArgs" -> bindArgs(a[1], a[2], a[3])
      [] f = "makeArgSigs" -> makeArgSigs(a[1])
      [] f = "procBody" -> procBody(a[1], a[2], a[3])
      [] f = "procCall" -> procCall(a[1], a[2], a[3])
      [] f = "makeProc" -> makeProc(a[1], a[2])
      [] f = "tclProc" -> tclProc(a[1], a[2])
      [] f = "Run" -> Run(a[1], a[2])

-----------------------------------------------------------------------------
NoObs == [op |-> "none"]

(* Specification of the list round trip: render a list value, parse it     *)
(* back.                                                                   *)

ListAlphabet == {"a", SP, LB, RB, DQ, CR}

RECURSIVE StrsUpTo(_)
StrsUpTo(n) ==
    IF n = 0 THEN {<<>>}
    ELSE LET S == StrsUpTo(n - 1) IN
         S \cup {Append(s, c) : s \in {t \in S : Len(t) = n - 1}, c \in ListAlphabet}

ListStrings == StrsUpTo(MaxStrLen)

ListInputs == UNION {[1..n -> ListStrings] : n \in 0..MaxListLen}

InitList ==
    /\ pc = "start"
    /\ xs \in ListInputs
    /\ rendered = <<>>
    /\ parsed = [ok |-> TRUE, val |-> <<>>]
    /\ interp = NewInterp
    /\ obs = NoObs

Render ==
    /\ pc = "start"
    /\ rendered' = Call("AsString", <<FromList(xs)>>)
    /\ pc' = "rendered"
    /\ UNCHANGED <<xs, parsed, interp, obs>>

ParseBack ==
    /\ pc = "rendered"
    /\ parsed' = Call("parseList", <<rendered>>)
    /\ pc' = "parsed"
    /\ UNCHANGED <<xs, rendered, interp, obs>>

NextList == Render \/ ParseBack

SpecList == InitList /\ [][NextList]_vars

\* C1: for every sequence xs of strings, parsing the rendering of the list
\* built from xs returns exactly xs.
C1_RoundTrip ==
    pc = "parsed" => (parsed.ok /\ parsed.val = [k \in 1..Len(xs) |-> FromStr(xs[k])])

-----------------------------------------------------------------------------
(* Specification of the frame manager: frames are pushed and popped as by  *)
(* procedure entry and exit, names are linked one or more frames up, and   *)
(* variables are written, unset and read through setVar and getVar with    *)
(* literal indexes (the varRefs toVarRef builds).  obs records the last    *)
(* operation, its arguments and what it returned.                          *)

MaxFrames == 2
MaxVars == 2
MaxArrFrames == 2
MaxArrVars == 1

\* the number of variable entries in all frames
RECURSIVE CountVars(_)
CountVars(frames) ==
    IF Len(frames) = 0 THEN 0
    ELSE Cardinality(DOMAIN frames[Len(frames)]) + CountVars(SubSeq(frames, 1, Len(frames) - 1))

VNames == {<<"x">>, <<"y">>}
VKeys == {<<"k">>, <<"j">>}
VVals == {FromStr(<<"1">>), FromStr(<<"2">>)}

\* the references to the names ns: scalar, and indexed by each of the keys ks
RefsOf(ns, ks) ==
    {VarRef(g, n, FALSE, NoInd) : g \in BOOLEAN, n \in ns}
    \cup {VarRef(g, n, TRUE, Lit(k)) : g \in BOOLEAN, n \in ns, k \in ks}

VarRefs == RefsOf(VNames, {<<"k">>})

ArrNames == {<<"x">>}
ArrRefs == RefsOf(ArrNames, VKeys)

InitVars ==
    /\ pc = "vars"
    /\ xs = <<>>
    /\ rendered = <<>>
    /\ parsed = [ok |-> TRUE, val |-> <<>>]
    /\ interp = NewInterp
    /\ obs = NoObs

PushFrame(maxf) ==
    /\ pc = "vars"
    /\ Len(interp.frames) < maxf
    /\ interp' = PushFrameOf(interp)
    /\ obs' = [op |-> "push"]
    /\ UNCHANGED <<pc, xs, rendered, parsed>>

PopFrame ==
    /\ pc = "vars"
    /\ Len(interp.frames) > 1
    /\ interp' = PopFrameOf(interp)
    /\ obs' = [op |-> "pop"]
    /\ UNCHANGED <<pc, xs, rendered, parsed>>

DoLinkVar(maxv, names) ==
    /\ pc = "vars"
    /\ \E level \in 1..(Len(interp.frames) - 1), theirs \in names, mine \in names :
          /\ interp' = LinkVar(interp, level, theirs, mine)
          /\ CountVars(interp'.frames) <= maxv
          /\ obs' = [op |-> "link", level |-> level, theirs |-> theirs, mine |-> mine]
    /\ UNCHANGED <<pc, xs, rendered, parsed>>

DoSetVar(maxv, refs) ==
    /\ pc = "vars"
    /\ \E vr \in refs, val \in VVals :
          LET r == Call("setVar", <<interp, vr, val>>) IN
          /\ interp' = r.i
          /\ CountVars(r.i.frames) <= maxv
          /\ obs' = [op |-> "set", vr |-> vr, val |-> val, rc |-> r.rc]
    /\ UNCHANGED <<pc, xs, rendered, parsed>>

DoUnsetVar(refs) ==
    /\ pc = "vars"
    /\ \E vr \in refs :
          LET r == Call("setVar", <<interp, vr, Nil>>) IN
          /\ interp' = r.i
          /\ obs' = [op |-> "unset", vr |-> vr, rc |-> r.rc]
    /\ UNCHANGED <<pc, xs, rendered, parsed>>

DoGetVar(refs) ==
    /\ pc = "vars"
    /\ \E vr \in refs :
          LET r == Call("getVar", <<interp, vr>>) IN
          /\ interp' = r.i
          /\ obs' = [op |-> "get", vr |-> vr, obj |-> r.obj, err |-> r.err]
    /\ UNCHANGED <<pc, xs, rendered, parsed>>

NextVars ==
    \/ PushFrame(MaxFrames)
    \/ PopFrame
    \/ DoLinkVar(MaxVars, VNames)
    \/ DoSetVar(MaxVars, VarRefs)
    \/ DoUnsetVar(VarRefs)
    \/ DoGetVar(VarRefs)

SpecVars == InitVars /\ [][NextVars]_vars

\* the same operations on one name with two element keys, under bounds of
\* their own
NextArr ==
    \/ PushFrame(MaxArrFrames)
    \/ PopFrame
    \/ DoLinkVar(MaxArrVars, ArrNames)
    \/ DoSetVar(MaxArrVars, ArrRefs)
    \/ DoUnsetVar(ArrRefs)
    \/ DoGetVar(ArrRefs)

SpecArr == InitVars /\ [][NextArr]_vars

\* the slot a name of frame f stands for, links followed
RECURSIVE Terminal(_, _, _)
Terminal(frames, f, n) ==
    IF n \notin DOMAIN frames[f] THEN [present |-> FALSE, e |-> NewEntry]
    ELSE IF frames[f][n].islink
    THEN Terminal(frames, frames[f][n].lframe, frames[f][n].lname)
    ELSE [present |-> TRUE, e |-> frames[f][n]]

\* the slot a variable reference stands for
TerminalOf(frames, vr) == Terminal(frames, IF vr.is_global THEN 1 ELSE Len(frames), vr.name)

\* C7: reading an element never set in an existing array fails with "no such
\* element", reading an array without an index fails with "variable is
\* array", writing with an index to a name that holds a non-array value fails
\* with "not an array"; the failing access leaves the variables unchanged.
C7_ArrayErrors ==
    [][LET before == interp.frames
           o == obs'
       IN  /\ o.op = "get" =>
                LET t == TerminalOf(before, o.vr) IN
                /\ (t.present /\ t.e.isarr /\ o.vr.hasind
                        /\ o.vr.arrind.strval \notin DOMAIN t.e.arrdata)
                     => /\ o.err.msg = "can't read: no such element in array"
                        /\ interp'.frames = before
                /\ (t.present /\ t.e.isarr /\ ~o.vr.hasind)
                     => /\ o.err.msg = "can't get: variable is array"
                        /\ interp'.frames = before
           /\ o.op = "set" =>
                LET t == TerminalOf(before, o.vr) IN
                (t.present /\ ~t.e.isarr /\ o.vr.hasind)
                  => /\ o.rc = kTclErr
                     /\ interp'.err.msg = "can't set: variable is not an array"
                     /\ interp'.frames = before
      ]_vars

\* an element of an existing array was read that is not set
C7_Witness ==
    /\ obs.op = "get"
    /\ obs.vr.hasind
    /\ obs.err.msg = "can't read: no such element in array"
    /\ TerminalOf(interp.frames, obs.vr).present
    /\ TerminalOf(interp.frames, obs.vr).e.isarr

\* C8: a scalar write to a name whose slot holds an array is reported as an
\* error, as an indexed write to a non-array slot is; an unset variable, an
\* indexed access to a non-array and a scalar access to an array are each
\* reported with an error of their own.
C8_MismatchReported ==
    [][LET before == interp.frames
           o == obs'
       IN  /\ o.op = "set" =>
                LET t == TerminalOf(before, o.vr) IN
                /\ (t.present /\ t.e.isarr /\ ~o.vr.hasind) => o.rc = kTclErr
                /\ (t.present /\ ~t.e.isarr /\ o.vr.hasind) => o.rc = kTclErr
           /\ o.op = "get" =>
                LET t == TerminalOf(before, o.vr) IN
                /\ ~t.present => o.err.msg = "variable not found: "
                /\ (t.present /\ ~t.e.isarr /\ o.vr.hasind)
                     => o.err.msg = "can't get: variable isn't array"
                /\ (t.present /\ t.e.isarr /\ ~o.vr.hasind)
                     => o.err.msg = "can't get: variable is array"
      ]_vars

\* the variable reference vr with the name n, in the current frame
Renamed(vr, n) == VarRef(FALSE, n, vr.hasind, vr.arrind)

\* C6: with x of the child frame linked to y one frame up, a write to x in
\* the child is the value read through y in the parent, a write to y in the
\* parent is the value read through x in the child, and the writes leave
\* the link in place.
C6_LinkedWrites ==
    [][LET before == interp.frames
           c == Len(before)
           o == obs'
       IN  (o.op = "set" /\ o.rc = kTclOK /\ c >= 2) =>
             /\ \A x \in DOMAIN before[c] :
                   (~o.vr.is_global /\ o.vr.name = x /\ before[c][x].islink
                       /\ before[c][x].lframe = c - 1)
                   => /\ Call("getVar", <<PopFrameOf(interp'), Renamed(o.vr, before[c][x].lname)>>).obj
                            = o.val
                      /\ interp'.frames[c][x] = before[c][x]
             /\ \A x \in DOMAIN before[c] :
                   (o.vr.is_global /\ c = 2 /\ before[c][x].islink
                       /\ before[c][x].lframe = 1 /\ before[c][x].lname = o.vr.name)
                   => /\ Call("getVar", <<interp', Renamed(o.vr, x)>>).obj = o.val
                      /\ interp'.frames[c][x] = before[c][x]
      ]_vars

-----------------------------------------------------------------------------
(* Specification of link resolution: frames are pushed and popped, LinkVar  *)
(* is called with any level that names a frame of the stack, the current    *)
(* frame included, and variables are written, unset and read.  A call of    *)
(* setVar or getVar whose loop over the links comes back to an entry it     *)
(* has left never returns: the host stays in that call.                     *)

MaxLinkFrames == 2
MaxLinkVars == 2

\* the scalar references to the names
LinkRefs == RefsOf(VNames, {})

\* the loop over the links of setVar, getVar and getArray, run for fuel
\* links at most: whether it left the loop, and where it stands
RECURSIVE followLinks(_, _, _, _)
followLinks(frames, f, n, fuel) ==
    IF n \notin DOMAIN frames[f] \/ ~frames[f][n].islink
    THEN [ends |-> TRUE, f |-> f, n |-> n]
    ELSE IF fuel = 0 THEN [ends |-> FALSE, f |-> f, n |-> n]
    ELSE followLinks(frames, frames[f][n].lframe, frames[f][n].lname, fuel - 1)

\* the loop started at the name n of frame f never ends: it has followed
\* more links than there are entries, so it stands on a link it has left
Loops(frames, f, n) == ~followLinks(frames, f, n, CountVars(frames)).ends

\* LinkVar by the host; level 0 is the current frame
DoLinkVarAny(maxv, names) ==
    /\ pc = "vars"
    /\ \E level \in 0..(Len(interp.frames) - 1), theirs \in names, mine \in names :
          /\ interp' = LinkVar(interp, level, theirs, mine)
          /\ CountVars(interp'.frames) <= maxv
          /\ obs' = [op |-> "link", level |-> level, theirs |-> theirs, mine |-> mine]
    /\ UNCHANGED <<pc, xs, rendered, parsed>>

\* setVar of a value by the host
DoSetVarAny(maxv, refs) ==
    /\ pc = "vars"
    /\ \E vr \in refs, val \in VVals :
          IF Loops(interp.frames, getVarMap(interp, vr.is_global), vr.name)
          THEN /\ pc' = "looping"
               /\ obs' = [op |-> "set", vr |-> vr, val |-> val, rc |-> "none"]
               /\ UNCHANGED interp
          ELSE LET r == Call("setVar", <<interp, vr, val>>) IN
               /\ interp' = r.i
               /\ CountVars(r.i.frames) <= maxv
               /\ obs' = [op |-> "set", vr |-> vr, val |-> val, rc |-> r.rc]
               /\ UNCHANGED pc
    /\ UNCHANGED <<xs, rendered, parsed>>

\* getVar by the host
DoGetVarAny(refs) ==
    /\ pc = "vars"
    /\ \E vr \in refs :
          IF Loops(interp.frames, getVarMap(interp, vr.is_global), vr.name)
          THEN /\ pc' = "looping"
               /\ obs' = [op |-> "get", vr |-> vr, obj |-> Nil, err |-> NoErr]
               /\ UNCHANGED interp
          ELSE LET r == Call("getVar", <<interp, vr>>) IN
               /\ interp' = r.i
               /\ obs' = [op |-> "get", vr |-> vr, obj |-> r.obj, err |-> r.err]
               /\ UNCHANGED pc
    /\ UNCHANGED <<xs, rendered, parsed>>

NextLink ==
    \/ PushFrame(MaxLinkFrames)
    \/ PopFrame
    \/ DoLinkVarAny(MaxLinkVars, VNames)
    \/ DoSetVarAny(MaxLinkVars, LinkRefs)
    \/ DoUnsetVar(LinkRefs)
    \/ DoGetVarAny(LinkRefs)

SpecLink == InitVars /\ [][NextLink]_vars

\* C13: no call of setVar or getVar stays in its loop over the links, and
\* from no name of any frame does that loop come back to a link it has
\* left.
C13_LinkChainsEnd ==
    /\ pc # "looping"
    /\ \A f \in DOMAIN interp.frames :
          \A n \in DOMAIN interp.frames[f] : ~Loops(interp.frames, f, n)

-----------------------------------------------------------------------------
(* Specification of the evaluator: a host runs script texts on one          *)
(* interpreter, registers and removes commands, and clears the held error.  *)
(* interp.log holds the events of the last Run.  A Go panic unwinds to the  *)
(* host, which may recover and go on using the interpreter; the end of the  *)
(* process is final.                                                        *)

\* proc p {} {} <NL> proc d {{a 1} args} {} <NL> proc q {a} {p; error $a; p}
S_defs ==
    <<"p", "r", "o", "c", " ", "p", " ", "{", "}", " ", "{", "}", "\n">>
    \o <<"p", "r", "o", "c", " ", "d", " ", "{", "{", "a", " ", "1", "}", " ", "a", "r", "g", "s", "}", " ", "{", "}", "\n">>
    \o <<"p", "r", "o", "c", " ", "q", " ", "{", "a", "}", " ", "{", "p", ";", " ", "e", "r", "r", "o", "r", " ", "$", "a", ";", " ", "p", "}">>

\* p
S_p ==
    <<"p">>

\* break
S_break ==
    <<"b", "r", "e", "a", "k">>

\* continue
S_continue ==
    <<"c", "o", "n", "t", "i", "n", "u", "e">>

\* error x
S_error ==
    <<"e", "r", "r", "o", "r", " ", "x">>

\* d
S_d ==
    <<"d">>

\* q 1
S_q ==
    <<"q", " ", "1">>

\* q
S_q0 ==
    <<"q">>

\* proc f args {}
S_deff ==
    <<"p", "r", "o", "c", " ", "f", " ", "a", "r", "g", "s", " ", "{", "}">>

\* f 1; break; f 2
S_seq ==
    <<"f", " ", "1", ";", " ", "b", "r", "e", "a", "k", ";", " ", "f", " ", "2">>

\* f 1; f 2; f 3
S_all ==
    <<"f", " ", "1", ";", " ", "f", " ", "2", ";", " ", "f", " ", "3">>

\* error x; f 1
S_err ==
    <<"e", "r", "r", "o", "r", " ", "x", ";", " ", "f", " ", "1">>

\* f {*}{1 2 3} b
S_fexpand ==
    <<"f", " ", "{", "*", "}", "{", "1", " ", "2", " ", "3", "}", " ", "b">>

\* f 1 2 3 b
S_fplain ==
    <<"f", " ", "1", " ", "2", " ", "3", " ", "b">>

\* f {*}{} b
S_fempty ==
    <<"f", " ", "{", "*", "}", "{", "}", " ", "b">>

\* f {*}{{1 2} 3}
S_fnested ==
    <<"f", " ", "{", "*", "}", "{", "{", "1", " ", "2", "}", " ", "3", "}">>

\* {*}{f 1} 2
S_fhead ==
    <<"{", "*", "}", "{", "f", " ", "1", "}", " ", "2">>

\* p {
S_unclosed ==
    <<"p", " ", "{">>

\* the scripts of the evaluator specification
EvalScripts ==
    {S_defs, S_p, S_break, S_continue, S_error, S_d, S_q, S_q0,
     S_unclosed}

\* f {a b} c
S_fblock ==
    <<"f", " ", "{", "a", " ", "b", "}", " ", "c">>

\* f {*} b
S_fstar ==
    <<"f", " ", "{", "*", "}", " ", "b">>

\* the scripts of the argument-vector specification
ArgScripts ==
    {S_deff, S_seq, S_all, S_err, S_fexpand, S_fplain, S_fempty, S_fnested, S_fhead,
     S_fblock, S_fstar}

InitEval ==
    /\ pc = "eval"
    /\ xs = <<>>
    /\ rendered = <<>>
    /\ parsed = [ok |-> TRUE, val |-> <<>>]
    /\ interp = NewInterp
    /\ obs = NoObs

\* Interp.Run (EvalString) on one of the scripts; the scripts nest calls two
\* deep at most
DoRun(scripts) ==
    /\ pc = "eval"
    /\ Len(interp.frames) + 2 <= MaxCallDepth
    /\ \E s \in scripts :
          LET r == Call("Run", <<[interp EXCEPT !.log = <<>>], s>>) IN
          /\ interp' = r.i
          /\ obs' = [op |-> "run", script |-> s, val |-> r.val, err |-> r.err, rc |-> r.r]
          /\ pc' = IF r.r = EXIT THEN "exited" ELSE "eval"
    /\ UNCHANGED <<xs, rendered, parsed>>

HostCmds == {Nil, HostCmd(kTclOK, TRUE)}

\* Interp.SetCmd by the host
DoSetCmd(names) ==
    /\ pc = "eval"
    /\ \E n \in names, c \in HostCmds :
          /\ interp' = SetCmd(interp, n, c)
          /\ obs' = [op |-> "setcmd", name |-> n]
    /\ UNCHANGED <<pc, xs, rendered, parsed>>

\* Interp.ClearError by the host
DoClearError ==
    /\ pc = "eval"
    /\ interp' = [interp EXCEPT !.err = NoErr]
    /\ obs' = [op |-> "clear"]
    /\ UNCHANGED <<pc, xs, rendered, parsed>>

NextEval ==
    \/ DoRun(EvalScripts)
    \/ DoSetCmd({<<"p">>, T_unknown})
    \/ DoClearError

SpecEval == InitEval /\ [][NextEval]_vars

NextArgs ==
    \/ DoRun(ArgScripts)
    \/ DoSetCmd({<<"f">>, T_unknown})
    \/ DoClearError

SpecArgs == InitEval /\ [][NextArgs]_vars

\* the events of one kind in the log of the last Run
Events(kind) == SelectSeq(interp.log, LAMBDA e : e.ev = kind)

\* C2: every call of a procedure built by makeProc ends with the frame
\* current that was current when the call started.
C2_FrameBalance ==
    \A k \in DOMAIN interp.log :
        interp.log[k].ev = "proc" => interp.log[k].after = interp.log[k].before

\* C3: every evaluation of a command sequence by evalCmds ran its commands
\* in order up to the first whose status is not OK and none after it, and
\* returned that status; when every command returned OK all were run and
\* the result is OK.
C3_StopAtFirst ==
    \A k \in DOMAIN interp.log :
        LET e == interp.log[k] IN
        e.ev = "cmds" =>
          /\ Len(e.rcs) <= e.n
          /\ \A j \in 1..(Len(e.rcs) - 1) : e.rcs[j] = kTclOK
          /\ e.res = (IF e.rcs = <<>> THEN kTclOK ELSE e.rcs[Len(e.rcs)])
          /\ e.res = kTclOK => Len(e.rcs) = e.n
          /\ (obs.op = "run" /\ k = Len(interp.log))
                => Len(Events("dispatch")) <= Len(e.rcs)

\* the sequence f 1; break; f 2 ended with BREAK after two of its three
\* commands, with f and break dispatched and nothing else
C3_Witness ==
    /\ obs.op = "run"
    /\ obs.script = S_seq
    /\ interp.log # <<>>
    /\ LET e == interp.log[Len(interp.log)] IN
       /\ e.ev = "cmds"
       /\ e.n = 3
       /\ e.rcs = <<kTclOK, kTclBreak>>
       /\ e.res = kTclBreak
    /\ Len(Events("dispatch")) = 2
    /\ Events("dispatch")[2].name = T_break

\* C4: a Run whose command sequence ends with BREAK or CONTINUE returns the
\* error 'invoked "break" outside of a loop' or 'invoked "continue" outside
\* of a loop', whatever the interpreter went through before.
C4_BreakOutsideLoop ==
    obs.op = "run" =>
      /\ obs.rc = kTclBreak
            => obs.err = Err("invoked \"break\" outside of a loop", <<>>)
      /\ obs.rc = kTclContinue
            => obs.err = Err("invoked \"continue\" outside of a loop", <<>>)

W(c) == FromStr(<<c>>)

\* the argument vector, command name first, each script is to dispatch
ExpectedVector(s) ==
    CASE s = S_fexpand -> <<W("f"), W("1"), W("2"), W("3"), W("b")>>
      [] s = S_fplain -> <<W("f"), W("1"), W("2"), W("3"), W("b")>>
      [] s = S_fempty -> <<W("f"), W("b")>>
      [] s = S_fnested -> <<W("f"), FromStr(<<"1", " ", "2">>), W("3")>>
      [] s = S_fhead -> <<W("f"), W("1"), W("2")>>
      [] s = S_fblock -> <<W("f"), FromStr(<<"a", " ", "b">>), W("c")>>
      [] s = S_fstar -> <<W("f"), W("*"), W("b")>>

\* the argument vector of a dispatch, command name first
VectorOf(d) == IF d.name = T_unknown THEN d.args ELSE <<FromStr(d.name)>> \o d.args

\* C9: a word {*}X contributes the elements of the list value of X, in
\* order, at its position of the argument vector, and every other word
\* contributes one argument: f {*}{1 2 3} b dispatches the vector of
\* f 1 2 3 b.
C9_ExpandSplicing ==
    (/\ obs.op = "run"
     /\ obs.script \in {S_fexpand, S_fplain, S_fempty, S_fnested, S_fhead,
                        S_fblock, S_fstar}
     /\ Events("dispatch") # <<>>)
    => VectorOf(Events("dispatch")[1]) = ExpectedVector(obs.script)

\* f {*}{1 2 3} b was run with f registered and f was dispatched
C9_Witness ==
    /\ obs.op = "run"
    /\ obs.script = S_fexpand
    /\ Events("dispatch") # <<>>
    /\ Events("dispatch")[1].name = <<"f">>
    /\ Len(Events("dispatch")[1].args) = 4

\* C10: every command evaluated through its precomputed simple call had
\* the invoked command, argument vector, status, result and held error
\* that evaluating its words and dispatching on the first has.
C10_FastPathSame ==
    \A k \in DOMAIN interp.log :
        interp.log[k].ev = "simple" => interp.log[k].same

\* C11: a Run of a script that parsed never ends by a panic unwinding out of
\* the evaluator; when it fails it returns the status ERROR and the error
\* the interpreter holds.
C11_NoUnwinding ==
    (obs.op = "run" /\ obs.rc # EXIT) =>
      /\ obs.rc # PANIC
      /\ obs.rc = kTclErr => (obs.err # NoErr /\ obs.err = interp.err)

-----------------------------------------------------------------------------
(* Specification of sub-interpreters: the host builds an interpreter with   *)
(* NewInterp, may build one more from it with NewInterpFrom, and runs       *)
(* scripts on either.  After NewInterpFrom, interp is the sub-interpreter   *)
(* and interp.creator holds the frames, result and held error of the        *)
(* interpreter it was built from; the registry interp.cmds is the one map   *)
(* both use.                                                                *)

\* the scripts run on the two interpreters
SubScripts ==
    {S_deff, S_fplain, S_p, S_error, S_break}

\* NewInterpFrom(interp) by the host
DoNewInterpFrom ==
    /\ pc = "eval"
    /\ interp.creator = Nil
    /\ interp' = NewInterpFrom(interp)
    /\ obs' = [op |-> "newfrom"]
    /\ UNCHANGED <<pc, xs, rendered, parsed>>

\* the interpreter interp was built from, as the evaluator sees it
CreatorOf(i) ==
    [cmds |-> i.cmds,
     frames |-> i.creator.frames,
     retval |-> i.creator.retval,
     err |-> i.creator.err,
     log |-> <<>>,
     creator |-> Nil]

\* Interp.Run (EvalString) on the interpreter interp was built from
DoRunCreator(scripts) ==
    /\ pc = "eval"
    /\ interp.creator # Nil
    /\ Len(interp.creator.frames) + 2 <= MaxCallDepth
    /\ \E s \in scripts :
          LET r == Call("Run", <<CreatorOf(interp), s>>) IN
          /\ interp' = [interp EXCEPT !.cmds = r.i.cmds, !.creator = Own(r.i)]
          /\ obs' = [op |-> "runcreator", script |-> s, val |-> r.val, err |-> r.err,
                     rc |-> r.r]
          /\ pc' = IF r.r = EXIT THEN "exited" ELSE "eval"
    /\ UNCHANGED <<xs, rendered, parsed>>

NextSub ==
    \/ DoRun(SubScripts)
    \/ DoNewInterpFrom
    \/ DoRunCreator(SubScripts)
    \/ DoClearError

SpecSub == InitEval /\ [][NextSub]_vars

\* C12: a Run on an interpreter built by NewInterpFrom leaves the frames,
\* the result and the held error of the interpreter it was built from
\* unchanged, and a Run of error x on it returns the error x raised.
C12_SubIsolation ==
    [][(interp.creator # Nil /\ obs'.op = "run") =>
          /\ interp'.creator = interp.creator
          /\ obs'.script = S_error =>
                (obs'.rc = kTclErr /\ obs'.err = Err("", <<"x">>))
      ]_vars

-----------------------------------------------------------------------------
(* Specification of argument binding: the closure of makeProc pushes a      *)
(* frame and binds the actual arguments to the parameters built by          *)
(* makeArgSigs, then leaves the frame.                                      *)

MaxParams == 3
MaxActuals == 2

\* the parameters a, {b 1} and args
BindParams == {FromStr(<<"a">>), FromStr(<<"b", " ", "1">>), FromStr(T_args)}

\* parameter lists without a repeated parameter
FormalLists ==
    UNION {{s \in [1..n -> BindParams] : \A j, k \in 1..n : s[j] = s[k] => j = k}
           : n \in 0..MaxParams}

ActualVectors == UNION {[1..n -> {W("u"), W("v")}] : n \in 0..MaxActuals}

InitBind ==
    /\ pc = "bind"
    /\ xs = <<>>
    /\ rendered = <<>>
    /\ parsed = [ok |-> TRUE, val |-> <<>>]
    /\ interp = NewInterp
    /\ obs = NoObs

\* the closure of makeProc up to the return of bindArgs
DoBind ==
    /\ pc = "bind"
    /\ \E sig \in FormalLists, args \in ActualVectors :
          LET s == Call("makeArgSigs", <<sig>>)
              b == Call("bindArgs", <<PushFrameOf(interp), s.val, args>>)
          IN  /\ s.ok
              /\ interp' = b.i
              /\ obs' = [op |-> "bind", sigs |-> s.val, args |-> args,
                         err |-> b.err, abort |-> b.abort]
    /\ pc' = "bound"
    /\ UNCHANGED <<xs, rendered, parsed>>

\* i.frame = i.frame.next
Leave ==
    /\ pc = "bound"
    /\ interp' = PopFrameOf(interp)
    /\ pc' = "bind"
    /\ UNCHANGED <<xs, rendered, parsed, obs>>

NextBind == DoBind \/ Leave

SpecBind == InitBind /\ [][NextBind]_vars

\* C5: bindArgs binds a final parameter named args to the list of the
\* actuals from its position on, the empty list when there are none left;
\* every other parameter to the actual at its position, else to its
\* default, and fails with the arity error when a parameter has neither.
C5_Binding ==
    (pc = "bound" /\ obs.op = "bind") =>
      LET sigs == obs.sigs
          args == obs.args
          n == Len(sigs)
          top == interp.frames[Len(interp.frames)]
          collects == n > 0 /\ sigs[n].name = T_args
          fixed == IF collects THEN n - 1 ELSE n
          missing == {k \in 1..fixed : k > Len(args) /\ ~sigs[k].hasdef}
      IN  /\ ~obs.abort
          /\ IF missing # {} THEN obs.err = Err("arg count mismatch", <<>>)
             ELSE /\ obs.err = NoErr
                  /\ \A k \in 1..fixed :
                        /\ sigs[k].name \in DOMAIN top
                        /\ top[sigs[k].name].obj
                             = (IF k <= Len(args) THEN args[k] ELSE sigs[k].def)
                  /\ collects =>
                        /\ T_args \in DOMAIN top
                        /\ top[T_args].obj = fromList(SubSeq(args, n, Len(args)))

====
